---- MODULE Spec2Model ----
(***************************************************************************)
(* Model of the QuotaProvider of src/src/extension.ts: the refresh guard,  *)
(* the locate -> scan -> probe pipeline (fetchQuotas), the cache update of *)
(* refresh(), the 30 s timer of the constructor and the view accessor      *)
(* getChildren().                                                          *)
(*                                                                         *)
(* JavaScript runs one handler at a time: a handler runs until its next    *)
(* await on real I/O (exec, fetch, res.json).  Each action below is one    *)
(* such run-to-suspension segment, including the continuations that only   *)
(* hop through already-resolved promises.                                  *)
(***************************************************************************)
EXTENDS Integers, Sequences, FiniteSets, TLC

VARIABLES
  now,            \* Date.now(), in ms since construction
  timerDue,       \* time of the next setInterval callback
  isWindows,      \* process.platform === 'win32'
  nextFetchTime,  \* QuotaProvider.nextFetchTime
  cachedModels,   \* QuotaProvider.cachedModels
  isRefreshing,   \* QuotaProvider.isRefreshing
  lastError,      \* QuotaProvider.lastError
  pc,             \* where the pipeline run in flight is suspended
  pid,            \* fetchQuotas: pid of processInfo
  ports,          \* fetchQuotas: ports returned by getListeningPorts
  probed,         \* ports for which fetch() was issued in the latest run
  status,         \* how the fetch() being handled settled
  had2xx,         \* some fetch() of the run in flight was answered HTTP 2xx
  runs,           \* number of pipeline runs in flight
  last,           \* the handler that ran last, its input and what it emitted
  everYielded,    \* some refresh since start returned >= 1 record
  viewItems       \* rows of the latest getChildren() since the last completion

vars == <<now, timerDue, isWindows, nextFetchTime, cachedModels, isRefreshing,
          lastError, pc, pid, ports, probed, status, had2xx, runs, last,
          everYielded, viewItems>>

\* ------------------------------------------------------------------ bounds
\* number of clock steps modelled
MaxClockSteps == 11
\* processes listed by one process query
MaxProcs == 2

\* --------------------------------------------------------------- constants
REFRESH_INTERVAL_MS == 5 * 60 * 1000
DISPLAY_UPDATE_INTERVAL_MS == 30 * 1000
ClockStep == DISPLAY_UPDATE_INTERVAL_MS

\* ------------------------------------------------------------ quota records
\* remainingFraction is kept in thousandths (0.15 -> 150); a record without
\* quotaInfo has hasQuota = FALSE
ModelA == [label |-> "Model A", hasQuota |-> TRUE, remainingFraction |-> 150,
           resetTime |-> "2024-01-01T10:00:00Z"]
ModelB == [label |-> "Model B", hasQuota |-> FALSE, remainingFraction |-> 0,
           resetTime |-> ""]
ModelC == [label |-> "Model C", hasQuota |-> TRUE, remainingFraction |-> 505,
           resetTime |-> "soon"]

\* clientModelConfigs arrays a server may answer, in server order
Responses == { <<>>, <<ModelA>>, <<ModelC, ModelB>> }

\* ------------------------------------------------------- process locator
Digits == {"0", "1", "2", "3", "4", "5", "6", "7", "8", "9"}

\* pid texts as character sequences: "42", "-5", "1;id"
PidTokens == { <<"4", "2">>, <<"-", "5">>, <<"1", ";", "i", "d">> }
OtherPid == <<"7">>

\* /^\d+$/.test(p)
IsNumericUnanchored(p) == \E i \in 1..Len(p) : p[i] \in Digits
IsNumeric(p) == Len(p) > 0 /\ \A i \in 1..Len(p) : p[i] \in Digits

\* what the process query gives: exec rejects (or the output does not
\* parse), or the listed processes in enumeration order; the unix column
\* split gives no second column as an empty pid
Procs == [pid : PidTokens, cmd : {TRUE}] \cup
         [pid : {<<>>, <<"4", "2">>}, cmd : {FALSE}]
PsOutcomes == { [kind |-> "throw", procs |-> <<>>] } \cup
              { [kind |-> "out", procs |-> s] :
                  s \in UNION { [1..n -> Procs] : n \in 0..MaxProcs } }

NoProc == [found |-> FALSE, pid |-> <<>>]
Found(p) == [found |-> TRUE, pid |-> p]

\* the Windows loop over processes, from index i
RECURSIVE FirstValidProc(_, _)
FirstValidProc(procs, i) ==
  IF i > Len(procs) THEN NoProc
  ELSE IF procs[i].cmd /\ Len(procs[i].pid) > 0 /\ IsNumeric(procs[i].pid)
       THEN Found(procs[i].pid)
       ELSE FirstValidProc(procs, i + 1)

getProcessInfo(win, out) ==
  IF out.kind = "throw" THEN NoProc
  ELSE IF win
    THEN FirstValidProc(out.procs, 1)
    ELSE IF Len(out.procs) = 0 THEN NoProc
         ELSE IF Len(out.procs[1].pid) = 0 \/ ~IsNumeric(out.procs[1].pid)
              THEN NoProc
              ELSE Found(out.procs[1].pid)

\* ------------------------------------------------------------ port scanner
Row(cols, proto, state, linePid, port) ==
  [cols |-> cols, proto |-> proto, state |-> state, linePid |-> linePid,
   port |-> port]
Listen(p, port) == Row(5, "TCP", "LISTENING", p, port)

\* lines of `lsof -p pid -iTCP -sTCP:LISTEN` that match /:(\d+)\s+\(LISTEN\)/
LsofOutputs(p) ==
  { <<>>,
    <<Listen(p, "4000")>>,
    <<Listen(p, "4000"), Listen(p, "5000"), Listen(p, "4000")>>,
    <<Listen(p, "5000"), Listen(p, "4000"), Listen(p, "6000")>> }

\* lines of `netstat -ano`: other protocols, states and owners are listed too
NetstatOutputs(p) ==
  { <<>>,
    <<Row(4, "UDP", "*:*", p, "4000"), Listen(p, "4000")>>,
    <<Row(5, "TCP", "ESTABLISHED", p, "6000"), Listen(OtherPid, "6000"),
      Listen(p, "4000"), Listen(p, "5000"), Listen(p, "4000")>>,
    <<Listen(p, "5000"), Listen(p, "4000"), Listen(p, "6000")>> }

ScanOutcomes(win, p) ==
  { [kind |-> "throw", rows |-> <<>>] } \cup
  { [kind |-> "out", rows |-> r] :
      r \in IF win THEN NetstatOutputs(p) ELSE LsofOutputs(p) }

\* a Set keeps insertion order: the first occurrence of each port, in order
RECURSIVE Dedup(_)
Dedup(s) ==
  IF s = <<>> THEN <<>>
  ELSE LET init == Dedup(SubSeq(s, 1, Len(s) - 1))
           x == s[Len(s)]
       IN IF \E i \in 1..Len(init) : init[i] = x THEN init
          ELSE Append(init, x)

RECURSIVE PortsOf(_, _, _)
PortsOf(win, p, rows) ==
  IF rows = <<>> THEN <<>>
  ELSE LET r == rows[1]
           keep == IF win
                   THEN r.cols >= 5 /\ r.proto = "TCP"
                        /\ r.state = "LISTENING" /\ r.linePid = p
                   ELSE TRUE
           rest == PortsOf(win, p, Tail(rows))
       IN IF keep THEN <<r.port>> \o rest ELSE rest

\* the validation that precedes the OS query
PidAccepted(p) == IsNumeric(p)

\* getListeningPorts(pid) once the OS query has answered with out
getListeningPorts(win, p, out) ==
  IF out.kind = "throw" THEN <<>> ELSE Dedup(PortsOf(win, p, out.rows))

\* ---------------------------------------------------------------- prober
FetchResults == {"neterr", "non2xx", "2xx"}
BodyResults ==
  { [kind |-> "badjson", configs |-> <<>>],
    [kind |-> "missing", configs |-> <<>>] } \cup
  { [kind |-> "json", configs |-> r] : r \in Responses }

\* res.ok
ResOkUnlessRejected(st) == st # "neterr"
ResOk(st) == st = "2xx"

\* data?.userStatus?.cascadeModelConfigData?.clientModelConfigs || []
ExtractConfigs(body) == IF body.kind = "json" THEN body.configs ELSE <<>>

\* the loop visits the ports in the order of the array
PortAt(ps, k) == ps[k]

\* a failed probe (rejected fetch, non-2xx, rejected json()) is caught inside
\* the loop, which goes on with the next port
AfterProbeFailureUncaught(kind) ==
  IF kind \in {"neterr", "badjson"} THEN "abort" ELSE "next"
AfterProbeFailure(kind) == "next"

\* `return data?...clientModelConfigs || []` ends the run for every body that
\* parses
EndsRunIfRecords(body) == body.kind = "json" /\ Len(body.configs) > 0
EndsRun(body) == body.kind # "badjson"

\* ------------------------------------------------------------------- view
\* Math.round(x) of a non-negative x = n / d
Round(n, d) == (2 * n + d) \div (2 * d)

\* new Date(t) is a valid date
ValidDate(t) == t = "2024-01-01T10:00:00Z"

ModelItem(m) ==
  LET perc == IF m.hasQuota THEN Round(m.remainingFraction, 10) ELSE 100
      resetTimeDisplay ==
        IF m.hasQuota /\ m.resetTime # "" /\ ValidDate(m.resetTime)
        THEN "10:00 AM" ELSE ""
  IN [kind |-> "model", label |-> m.label, perc |-> perc,
      reset |-> resetTimeDisplay, filled |-> Round(perc, 10),
      icon |-> IF perc > 50 THEN "check"
               ELSE IF perc > 20 THEN "warning" ELSE "error"]

StatusItem(kind, label, icon) ==
  [kind |-> kind, label |-> label, perc |-> 0, reset |-> "", filled |-> 0,
   icon |-> icon]
ErrorItem == StatusItem("error", "Unable to fetch quotas", "warning")
LoadingItem == StatusItem("loading", "Loading quotas", "loading~spin")

\* the error row is shown
ErrorShown == Len(cachedModels) = 0 /\ lastError

\* the rows getChildren() returns after the timer row
ViewRowsLoadingWhileRefreshing ==
  IF ErrorShown THEN <<ErrorItem>>
  ELSE IF Len(cachedModels) = 0 \/ isRefreshing THEN <<LoadingItem>>
  ELSE [i \in 1..Len(cachedModels) |-> ModelItem(cachedModels[i])]
ViewRows ==
  IF ErrorShown THEN <<ErrorItem>>
  ELSE IF Len(cachedModels) = 0 THEN <<LoadingItem>>
  ELSE [i \in 1..Len(cachedModels) |-> ModelItem(cachedModels[i])]

\* secondsLeft of the timer row, for a deadline d
SecondsLeftUnclamped(d) == (d - now) \div 1000
SecondsLeft(d) == IF d - now < 0 THEN 0 ELSE (d - now) \div 1000

\* getChildren() triggers a background refresh
ViewTriggersRefreshWhenIdle == ~isRefreshing
ViewTriggersRefresh == Len(cachedModels) = 0 /\ ~isRefreshing

\* ---------------------------------------------------------------- refresh
Event(op) ==
  [op |-> op, status |-> "", res |-> "", configs |-> <<>>, dropped |-> FALSE,
   again |-> FALSE, secondsLeft |-> 0, guardAtFire |-> FALSE,
   returned |-> FALSE, threw |-> FALSE, models |-> <<>>, fires |-> 0,
   queried |-> FALSE, query |-> <<>>]

\* the guard of refresh()
GuardedNever == FALSE
GuardedUntilDeadline == isRefreshing \/ now < nextFetchTime
Guarded == isRefreshing

\* nextFetchTime as set at the start of an attempt
NextDeadlineKept == nextFetchTime
NextDeadline == now + REFRESH_INTERVAL_MS

\* the timer callback finds the deadline elapsed
DeadlineElapsedStrictly == now > nextFetchTime
DeadlineElapsedEarly == now + DISPLAY_UPDATE_INTERVAL_MS >= nextFetchTime
DeadlineElapsed == now >= nextFetchTime

\* the display-only branch of the timer callback fires the change event,
\* whatever isRefreshing is
DisplayTickSilent(ev) == ev
DisplayTick(ev) == [ev EXCEPT !.fires = 1, !.guardAtFire = isRefreshing]

\* isRefreshing after the finally block
GuardAfterCompletionOnSuccess(outcome) ==
  outcome.threw \/ Len(outcome.models) = 0
GuardAfterCompletion(outcome) == FALSE

\* change events fired at the end of refresh(), after the finally block
CompletionFiresOnSuccess(outcome) ==
  IF Len(outcome.models) > 0 THEN 1 ELSE 0
CompletionFires(outcome) == 1

\* what fetchQuotas() hands to refresh(): it catches everything
FetchReturn(models) == [threw |-> FALSE, models |-> models]

\* the cache after an outcome
NewCacheOverwrite(outcome) ==
  IF ~outcome.threw THEN outcome.models ELSE cachedModels
NewCacheMerged(outcome) ==
  IF ~outcome.threw /\ Len(outcome.models) > 0
  THEN cachedModels \o outcome.models
  ELSE cachedModels
NewCache(outcome) ==
  IF ~outcome.threw /\ Len(outcome.models) > 0 THEN outcome.models
  ELSE cachedModels

\* lastError after an outcome
NewLastErrorAnyEmpty(outcome) ==
  IF outcome.threw THEN TRUE
  ELSE IF Len(outcome.models) > 0 THEN FALSE
  ELSE TRUE
NewLastErrorNeverSet(outcome) ==
  IF outcome.threw THEN TRUE
  ELSE IF Len(outcome.models) > 0 THEN FALSE
  ELSE lastError
NewLastError(outcome) ==
  IF outcome.threw THEN TRUE
  ELSE IF Len(outcome.models) > 0 THEN FALSE
  ELSE IF Len(cachedModels) = 0 THEN TRUE
  ELSE lastError

\* the synchronous head of refresh(): guard passed, the process query issued
StartRefresh ==
  /\ isRefreshing' = TRUE
  /\ nextFetchTime' = NextDeadline
  /\ pc' = "locating"
  /\ pid' = <<>>
  /\ ports' = <<>>
  /\ probed' = <<>>
  /\ status' = ""
  /\ had2xx' = FALSE
  /\ runs' = runs + 1

RunUnchanged ==
  UNCHANGED <<isRefreshing, nextFetchTime, pc, pid, ports, probed, status,
              had2xx, runs>>

\* a call of refresh() by the handler that logs ev
CallRefresh(ev) ==
  IF Guarded
  THEN /\ RunUnchanged
       /\ last' = [ev EXCEPT !.dropped = TRUE]
  ELSE /\ StartRefresh
       /\ last' = ev

\* fetchQuotas() returns models; refresh() resumes, updates the cache, clears
\* the guard and fires the change event
Finish(models, ev) ==
  LET outcome == FetchReturn(models)
  IN /\ cachedModels' = NewCache(outcome)
     /\ lastError' = NewLastError(outcome)
     /\ isRefreshing' = GuardAfterCompletion(outcome)
     /\ pc' = "idle"
     /\ runs' = runs - 1
     /\ everYielded' = (everYielded \/ (~outcome.threw /\ Len(outcome.models) > 0))
     /\ viewItems' = <<>>
     /\ last' = [ev EXCEPT !.returned = TRUE, !.threw = outcome.threw,
                           !.models = outcome.models,
                           !.fires = CompletionFires(outcome),
                           !.guardAtFire = GuardAfterCompletion(outcome)]
     /\ pid' = <<>>
     /\ status' = ""
     /\ had2xx' = FALSE
     /\ UNCHANGED <<nextFetchTime, ports, probed>>

\* ---------------------------------------------------------------- actions
Init ==
  /\ now = 0
  /\ timerDue = DISPLAY_UPDATE_INTERVAL_MS
  /\ isWindows \in BOOLEAN
  /\ nextFetchTime = REFRESH_INTERVAL_MS
  /\ cachedModels = <<>>
  /\ isRefreshing = FALSE
  /\ lastError = FALSE
  /\ pc = "idle"
  /\ pid = <<>>
  /\ ports = <<>>
  /\ probed = <<>>
  /\ status = ""
  /\ had2xx = FALSE
  /\ runs = 0
  /\ last = Event("init")
  /\ everYielded = FALSE
  /\ viewItems = <<>>

\* time passes; a due timer callback runs before the clock moves on
Advance ==
  /\ now < timerDue
  /\ now + ClockStep <= MaxClockSteps * ClockStep
  /\ now' = now + ClockStep
  /\ last' = Event("clock")
  /\ UNCHANGED <<timerDue, isWindows, nextFetchTime, cachedModels,
                 isRefreshing, lastError, pc, pid, ports, probed, status,
                 had2xx, runs, everYielded, viewItems>>

\* the setInterval callback of the constructor
TimerTick ==
  /\ now >= timerDue
  /\ timerDue' = timerDue + DISPLAY_UPDATE_INTERVAL_MS
  /\ IF DeadlineElapsed
     THEN CallRefresh(Event("tick"))
     ELSE /\ RunUnchanged
          /\ last' = DisplayTick(Event("tick"))
  /\ UNCHANGED <<now, isWindows, cachedModels, lastError, everYielded,
                 viewItems>>

\* the quota-view.refreshEntry command
ManualRefresh ==
  /\ CallRefresh(Event("manual"))
  /\ UNCHANGED <<now, timerDue, isWindows, cachedModels, lastError,
                 everYielded, viewItems>>

\* getChildren() for the root element
GetChildren ==
  /\ LET deadline == IF ViewTriggersRefresh /\ ~Guarded
                      THEN NextDeadline ELSE nextFetchTime
         ev == [Event("view") EXCEPT !.again = (viewItems # <<>>),
                                     !.secondsLeft = SecondsLeft(deadline)]
     IN IF ViewTriggersRefresh
        THEN CallRefresh(ev)
        ELSE /\ RunUnchanged
             /\ last' = ev
  /\ viewItems' = ViewRows
  /\ UNCHANGED <<now, timerDue, isWindows, cachedModels, lastError,
                 everYielded>>

\* the process query answers; on a process found, getListeningPorts validates
\* the pid and issues the socket query
LocateDone ==
  /\ pc = "locating"
  /\ \E out \in PsOutcomes :
       LET info == getProcessInfo(isWindows, out)
       IN IF ~info.found \/ ~PidAccepted(info.pid)
          THEN Finish(<<>>, Event("locate"))
          ELSE /\ pid' = info.pid
               /\ pc' = "scanning"
               /\ last' = [Event("locate") EXCEPT !.queried = TRUE,
                                                  !.query = info.pid]
               /\ UNCHANGED <<cachedModels, lastError, isRefreshing,
                              nextFetchTime, ports, probed, status, had2xx,
                              runs, everYielded, viewItems>>
  /\ UNCHANGED <<now, timerDue, isWindows>>

\* the socket query answers; the first fetch() is issued
ScanDone ==
  /\ pc = "scanning"
  /\ \E out \in ScanOutcomes(isWindows, pid) :
       LET ps == getListeningPorts(isWindows, pid, out)
       IN IF Len(ps) = 0
          THEN Finish(<<>>, Event("scan"))
          ELSE /\ ports' = ps
               /\ probed' = <<PortAt(ps, 1)>>
               /\ pc' = "probing"
               /\ last' = Event("scan")
               /\ UNCHANGED <<cachedModels, lastError, isRefreshing,
                              nextFetchTime, pid, status, had2xx, runs,
                              everYielded, viewItems>>
  /\ UNCHANGED <<now, timerDue, isWindows>>

\* after a failed probe of kind k: the next fetch() or the end of the loop
ProbeFailed(k, ev) ==
  IF AfterProbeFailure(k) = "next" /\ Len(probed) < Len(ports)
  THEN /\ probed' = Append(probed, PortAt(ports, Len(probed) + 1))
       /\ pc' = "probing"
       /\ status' = ""
       /\ last' = ev
       /\ UNCHANGED <<cachedModels, lastError, isRefreshing, nextFetchTime,
                      pid, ports, had2xx, runs, everYielded, viewItems>>
  ELSE Finish(<<>>, ev)

\* fetch() settles
ProbeDone ==
  /\ pc = "probing"
  /\ \E st \in FetchResults :
       LET ev == [Event("probe") EXCEPT !.status = st]
       IN IF ResOk(st)
          THEN /\ pc' = "reading"
               /\ status' = st
               /\ had2xx' = (had2xx \/ st = "2xx")
               /\ last' = ev
               /\ UNCHANGED <<cachedModels, lastError, isRefreshing,
                              nextFetchTime, pid, ports, probed, runs,
                              everYielded, viewItems>>
          ELSE ProbeFailed(st, ev)
  /\ UNCHANGED <<now, timerDue, isWindows>>

\* res.json() settles
BodyDone ==
  /\ pc = "reading"
  /\ \E body \in BodyResults :
       LET ev == [Event("body") EXCEPT !.status = status, !.res = body.kind,
                                       !.configs = body.configs]
       IN IF EndsRun(body)
          THEN Finish(ExtractConfigs(body), ev)
          ELSE ProbeFailed(body.kind, ev)
  /\ UNCHANGED <<now, timerDue, isWindows>>

Next ==
  \/ Advance
  \/ TimerTick
  \/ ManualRefresh
  \/ GetChildren
  \/ LocateDone
  \/ ScanDone
  \/ ProbeDone
  \/ BodyDone

Spec == Init /\ [][Next]_vars

\* every stage of the pipeline eventually returns or throws: the pending
\* promise of a run in flight settles
StagesSettle ==
  /\ WF_vars(LocateDone)
  /\ WF_vars(ScanDone)
  /\ WF_vars(ProbeDone)
  /\ WF_vars(BodyDone)

SpecStagesSettle == Spec /\ StagesSettle

\* ------------------------------------------------------------- properties
Triggers == {"tick", "manual", "view"}
RefreshState == <<cachedModels, lastError, nextFetchTime, isRefreshing>>
RunState == <<pc, pid, ports, probed, status, had2xx, runs>>

\* C1: at most one pipeline run is in flight, and a timer tick, manualRefresh
\* or view call that arrives while isRefreshing is true starts nothing and
\* leaves cachedModels, lastError, nextFetchTime, isRefreshing and the run in
\* flight as they are.
C1_GuardCorrect ==
  [][ /\ runs' <= 1
      /\ (isRefreshing /\ last'.op \in Triggers)
           => UNCHANGED <<RefreshState, RunState>> ]_vars

\* a timer tick past the deadline was dropped while a probe was pending
C1_Witness ==
  last.op = "tick" /\ last.dropped /\ pc = "probing" /\ now >= nextFetchTime

\* C2: a refresh that returns no record (no process, no port, every probe
\* failed, or a 2xx answer with zero records) while the cache is non-empty
\* leaves the cache as it was, and lastError is false before and after.
C2_StalePreference ==
  [][ (last'.returned /\ Len(last'.models) = 0 /\ Len(cachedModels) > 0)
        => (cachedModels' = cachedModels /\ ~lastError /\ ~lastError') ]_vars

\* a populated cache survived a refresh that found no listening port
C2_Witness ==
  /\ last.op = "scan" /\ last.returned /\ Len(last.models) = 0
  /\ Len(cachedModels) > 0 /\ ~lastError

\* the ports probed so far are the first ports of the scanner's list, in order
ProbedInOrder ==
  /\ Len(probed) <= Len(ports)
  /\ \A i \in 1..Len(probed) : probed[i] = ports[i]

\* the body of a 2xx answer parsed: the probe succeeded
ProbeSucceeded(ev) ==
  ev.op = "body" /\ ev.status = "2xx" /\ ev.res \in {"json", "missing"}

\* C3 as stated: ports are probed one at a time in the scanner's order, and
\* once a probe was answered HTTP 2xx no later port is probed in that run.
C3_NoProbeAfter2xx ==
  [][ /\ ProbedInOrder'
      /\ Len(probed') <= Len(probed) + 1
      /\ (Len(probed') > Len(probed) => ~had2xx) ]_vars

\* C3 amended: ports are probed one at a time in the scanner's order, and
\* once a probe was answered HTTP 2xx with a body that parses, the run
\* returns at once and no later port is probed.
C3_FirstSuccessWins ==
  [][ /\ ProbedInOrder'
      /\ Len(probed') <= Len(probed) + 1
      /\ ProbeSucceeded(last')
           => (last'.returned /\ pc' = "idle" /\ probed' = probed) ]_vars

\* ports [5000, 4000, 6000]: 4000 succeeded and 6000 was never probed
C3_Witness ==
  /\ ports = <<"5000", "4000", "6000">> /\ probed = <<"5000", "4000">>
  /\ ProbeSucceeded(last) /\ last.returned /\ pc = "idle"

\* a probe failed: fetch() rejected, a non-2xx status, or a body that does
\* not parse
ProbeFailure(ev) ==
  \/ ev.op = "probe" /\ ev.status \in {"neterr", "non2xx"}
  \/ ev.op = "body" /\ ev.res = "badjson"

\* C4: a failed probe is not escalated: the run goes on with the next port
\* of the list and leaves the cache alone, or returns no record after the
\* last port; when the first probe that succeeds carries >= 1 record, the
\* cache becomes exactly that list in server order and lastError is false.
C4_FailoverAndCommit ==
  [][ /\ (ProbeFailure(last') /\ Len(probed) < Len(ports))
           => /\ isRefreshing' /\ pc' = "probing"
              /\ probed' = Append(probed, ports[Len(probed) + 1])
              /\ UNCHANGED <<cachedModels, lastError>>
      /\ (ProbeFailure(last') /\ Len(probed) = Len(ports))
           => (last'.returned /\ Len(last'.models) = 0)
      /\ (ProbeSucceeded(last') /\ Len(last'.configs) >= 1)
           => /\ cachedModels' = last'.configs
              /\ ~lastError' /\ ~isRefreshing' ]_vars

\* ports [4000, 5000]: 4000 failed, 5000 answered Model A, now cached
C4_Witness ==
  /\ ports = <<"4000", "5000">> /\ probed = <<"4000", "5000">>
  /\ ProbeSucceeded(last) /\ last.configs = <<ModelA>>
  /\ cachedModels = <<ModelA>> /\ ~lastError /\ ~isRefreshing

\* C5: every run of fetchQuotas ends by returning, never by throwing, and
\* it returns records only when a probe succeeded: a run without a
\* successful probe returns the empty list, whatever failed.
C5_NeverThrows ==
  [][ /\ (pc # "idle" /\ pc' = "idle") => last'.returned
      /\ last'.returned
           => /\ ~last'.threw
              /\ ~ProbeSucceeded(last') => Len(last'.models) = 0 ]_vars

\* all three ports were probed, the last fetch() rejected, the run returned
\* the empty list
C5_Witness ==
  /\ last.op = "probe" /\ last.status = "neterr" /\ last.returned
  /\ ~last.threw /\ Len(last.models) = 0 /\ Len(probed) = 3

\* a non-empty string of decimal digits
StrictlyNumeric(p) == p \in Seq(Digits) /\ Len(p) > 0

\* C6: a socket query is only ever issued for a strictly numeric pid; the
\* scanner accepts no pid that is not strictly numeric, and whatever the
\* pending process query answers, the locator returns no pid that is not.
C6_InjectionSafe ==
  /\ last.queried => StrictlyNumeric(last.query)
  /\ pc = "scanning" => StrictlyNumeric(pid)
  /\ \A p \in PidTokens \cup {<<>>} : PidAccepted(p) => StrictlyNumeric(p)
  /\ pc = "locating"
       => \A out \in PsOutcomes :
            getProcessInfo(isWindows, out).found
              => StrictlyNumeric(getProcessInfo(isWindows, out).pid)

\* the lsof query was issued for pid 42
C6_Witness ==
  last.op = "locate" /\ last.queried /\ last.query = <<"4", "2">>
  /\ ~isWindows /\ pc = "scanning"

\* C7: a refresh that returns no record while the cache is empty sets
\* lastError and leaves the cache empty; when no process is found the run
\* ends without a socket query and without a probe.
C7_ErrorWhenEmpty ==
  [][ /\ (last'.returned /\ Len(last'.models) = 0 /\ Len(cachedModels) = 0)
           => (lastError' /\ Len(cachedModels') = 0)
      /\ (last'.op = "locate" /\ last'.returned)
           => (~last'.queried /\ probed' = <<>>) ]_vars

\* no process was found with an empty cache: lastError is set
C7_Witness ==
  /\ last.op = "locate" /\ last.returned /\ lastError
  /\ Len(cachedModels) = 0 /\ probed = <<>>

HasErrorRow(rows) == \E i \in 1..Len(rows) : rows[i].kind = "error"
ModelRows == [i \in 1..Len(cachedModels) |-> ModelItem(cachedModels[i])]

\* C8: with a non-empty cache the view is the rows of the cached records and
\* holds no error row; an error row is shown only while no refresh since
\* start has returned a record.
C8_ErrorOnlyWithoutData ==
  /\ Len(cachedModels) > 0 => (ViewRows = ModelRows /\ ~HasErrorRow(ViewRows))
  /\ HasErrorRow(ViewRows) => ~everYielded
  /\ (viewItems # <<>> /\ Len(cachedModels) > 0) => viewItems = ModelRows
  /\ HasErrorRow(viewItems) => ~everYielded

\* the view returned the rows of a populated cache
C8_Witness ==
  /\ last.op = "view" /\ cachedModels = <<ModelC, ModelB>>
  /\ viewItems = <<ModelItem(ModelC), ModelItem(ModelB)>> /\ everYielded

\* C9 as stated: a run is started only by a timer tick past the deadline or
\* by manualRefresh, and a view call changes none of cachedModels, lastError,
\* isRefreshing, nextFetchTime and starts no run.
C9_ViewReadOnly ==
  [][ /\ runs' > runs
           => /\ last'.op \in {"tick", "manual"}
              /\ last'.op = "tick" => now >= nextFetchTime
      /\ last'.op = "view" => UNCHANGED <<RefreshState, RunState>> ]_vars

\* C9 amended: a run is started only by a timer tick past the deadline, by
\* manualRefresh, or by a view call made while the cache is empty and no
\* refresh is in flight, which then sets isRefreshing and advances
\* nextFetchTime; a view call never changes cachedModels or lastError, and
\* made with a non-empty cache or a refresh in flight it changes nothing.
C9_ViewStartsOnlyWhenEmpty ==
  [][ /\ runs' > runs
           => /\ last'.op \in Triggers
              /\ last'.op = "tick" => now >= nextFetchTime
              /\ last'.op = "view" => (Len(cachedModels) = 0 /\ ~isRefreshing)
      /\ last'.op = "view"
           => /\ UNCHANGED <<cachedModels, lastError>>
              /\ (Len(cachedModels) > 0 \/ isRefreshing)
                   => UNCHANGED <<RefreshState, RunState>>
              /\ (Len(cachedModels) = 0 /\ ~isRefreshing)
                   => /\ isRefreshing' /\ runs' = runs + 1
                      /\ nextFetchTime' = now + REFRESH_INTERVAL_MS ]_vars

\* a view call on the empty cache started a run
C9_Witness ==
  /\ last.op = "view" /\ isRefreshing /\ pc = "locating" /\ runs = 1
  /\ nextFetchTime = now + REFRESH_INTERVAL_MS /\ now > 0

\* C10: a view call returns the same rows as the previous view call when no
\* refresh completed between the two.
C10_ViewIdempotent ==
  [][ (last'.op = "view" /\ viewItems # <<>>) => viewItems' = viewItems ]_vars

\* a repeated view call on the empty cache, a refresh in flight
C10_Witness ==
  /\ last.op = "view" /\ last.again /\ Len(cachedModels) = 0
  /\ viewItems = <<LoadingItem>> /\ isRefreshing

\* C11: a manualRefresh call made while isRefreshing is false starts a pipeline
\* run whether or not the deadline has elapsed, and that run moves
\* nextFetchTime to now + REFRESH_INTERVAL_MS as a scheduled run does; a call
\* made while isRefreshing is true is dropped by the same guard.
C11_ManualAlwaysRuns ==
  [][ last'.op = "manual" =>
        IF isRefreshing
        THEN last'.dropped /\ UNCHANGED <<RefreshState, RunState>>
        ELSE /\ ~last'.dropped
             /\ runs' = runs + 1
             /\ isRefreshing'
             /\ pc' = "locating"
             /\ nextFetchTime' = now + REFRESH_INTERVAL_MS ]_vars

\* a manual refresh started with data cached, 30 s after start-up: the
\* deadline it replaced lay at least 270 s ahead
C11_Witness ==
  /\ last.op = "manual" /\ ~last.dropped
  /\ Len(cachedModels) > 0
  /\ now = DISPLAY_UPDATE_INTERVAL_MS
  /\ nextFetchTime = now + REFRESH_INTERVAL_MS
  /\ pc = "locating"

\* C12: lastError is true only while cachedModels is empty and the most recent
\* completed refresh attempt failed or returned no records.  Stated over
\* steps: lastError starts false; a completing attempt leaves it true only if
\* its outcome was empty and the cache is empty; no other step changes it.
C12_ErrorMeansLastAttemptEmpty ==
  [][ /\ lastError' => Len(cachedModels') = 0
      /\ last'.returned =>
           (lastError' => (last'.threw \/ Len(last'.models) = 0))
      /\ ~last'.returned => lastError' = lastError ]_vars

\* every port of an attempt failed with nothing cached: the error flag is up
C12_Witness ==
  /\ lastError
  /\ Len(cachedModels) = 0
  /\ last.returned /\ last.op = "probe" /\ Len(last.models) = 0
  /\ Len(probed) > 1

\* C13 as stated: an attempt that started at t and has not completed is
\* followed by a new attempt no later than one refresh interval plus one tick
\* after t.  While an attempt is in flight nextFetchTime is t + interval, so
\* no state has it still in flight with the tick of t + interval + one tick
\* already taken.
C13_HungRunSuperseded ==
  ~( /\ isRefreshing
     /\ now >= nextFetchTime + DISPLAY_UPDATE_INTERVAL_MS
     /\ timerDue > now )

\* C13, amended: the deadline of an attempt started at t stays t + interval
\* through its completion, however long the pipeline takes; a timer tick at or
\* after the deadline starts a new attempt when no attempt is in flight, and
\* while the earlier attempt has not completed the tick is dropped by the
\* guard and starts nothing.
C13_DeadlineNotDelayed ==
  [][ /\ last'.returned => nextFetchTime' = nextFetchTime
      /\ (last'.op = "tick" /\ now >= nextFetchTime) =>
           IF isRefreshing
           THEN last'.dropped /\ UNCHANGED <<RefreshState, RunState>>
           ELSE /\ ~last'.dropped
                /\ runs' = runs + 1
                /\ isRefreshing'
                /\ nextFetchTime' = now + REFRESH_INTERVAL_MS ]_vars

\* an attempt started at start-up is still probing when the tick one interval
\* and one tick later has been dropped
C13_Witness ==
  /\ last.op = "tick" /\ last.dropped
  /\ isRefreshing /\ pc = "probing"
  /\ nextFetchTime = REFRESH_INTERVAL_MS
  /\ now = REFRESH_INTERVAL_MS + DISPLAY_UPDATE_INTERVAL_MS

\* C14: every attempt that passes the guard sets isRefreshing to true and
\* nextFetchTime to now + REFRESH_INTERVAL_MS in its first step, before any
\* stage of the pipeline has run; the completion of an attempt, with records
\* or without, leaves nextFetchTime unchanged.
C14_DeadlineSetAtStart ==
  [][ /\ runs' > runs =>
           /\ ~isRefreshing /\ isRefreshing'
           /\ nextFetchTime' = now + REFRESH_INTERVAL_MS
           /\ pc' = "locating"
           /\ probed' = <<>> /\ ~last'.queried /\ ~last'.returned
      /\ last'.returned =>
           /\ pc # "idle" /\ pc' = "idle"
           /\ nextFetchTime' = nextFetchTime ]_vars

\* an attempt started at 30 s completes with records 60 s later: the deadline
\* is still the one set at its start
C14_Witness ==
  /\ last.returned /\ Len(last.models) > 0
  /\ now = 3 * DISPLAY_UPDATE_INTERVAL_MS
  /\ nextFetchTime = DISPLAY_UPDATE_INTERVAL_MS + REFRESH_INTERVAL_MS

\* C15 as stated: every timer tick taken while a refresh is in flight fires
\* the change event, ticks at or after nextFetchTime included.
C15_TickAlwaysFires ==
  [][ (last'.op = "tick" /\ isRefreshing) => last'.fires = 1 ]_vars

\* C15, amended: a timer tick taken while a refresh is in flight fires the
\* change event exactly when the deadline has not elapsed; a tick at or after
\* nextFetchTime calls refresh() instead, which the guard drops without firing
\* anything, and the countdown is then 0 whether or not the view is redrawn.
C15_TickFiresBeforeDeadline ==
  [][ (last'.op = "tick" /\ isRefreshing) =>
        IF now < nextFetchTime
        THEN last'.fires = 1 /\ last'.guardAtFire /\ ~last'.dropped
        ELSE /\ last'.fires = 0 /\ last'.dropped
             /\ SecondsLeft(nextFetchTime) = 0 ]_vars

\* a tick taken past the deadline while the response body of a probe is
\* being read: refresh() is dropped and nothing is fired
C15_Witness ==
  /\ last.op = "tick" /\ last.fires = 0 /\ last.dropped
  /\ isRefreshing /\ pc = "reading"
  /\ now >= nextFetchTime

\* C16: a timer tick does exactly one of two things.  At or after
\* nextFetchTime it calls refresh() (which starts a run, or is dropped by the
\* guard) and fires nothing itself; before nextFetchTime it fires one
\* display-only change event, starts no pipeline run and leaves cachedModels,
\* lastError, isRefreshing, nextFetchTime and the run in flight as they were.
C16_TickEitherOr ==
  [][ last'.op = "tick" =>
        IF now >= nextFetchTime
        THEN /\ last'.fires = 0
             /\ IF isRefreshing
                THEN last'.dropped /\ UNCHANGED <<RefreshState, RunState>>
                ELSE ~last'.dropped /\ runs' = runs + 1 /\ isRefreshing'
        ELSE /\ last'.fires = 1 /\ ~last'.dropped
             /\ ~last'.queried /\ ~last'.returned
             /\ UNCHANGED <<RefreshState, RunState>> ]_vars

\* the tick that finds the first deadline elapsed, with data cached and
\* nothing in flight, starts the scheduled run
C16_Witness ==
  /\ last.op = "tick" /\ ~last.dropped /\ last.fires = 0
  /\ pc = "locating" /\ isRefreshing
  /\ Len(cachedModels) > 0
  /\ nextFetchTime = now + REFRESH_INTERVAL_MS

\* C17: provided every stage of the pipeline eventually returns or throws,
\* every attempt that sets isRefreshing to true eventually sets it back to
\* false, whatever the outcome, and isRefreshing is false in the state a
\* completed attempt leaves.
C17_GuardReleased ==
  /\ [](last.returned => ~isRefreshing)
  /\ [](isRefreshing => <>(~isRefreshing))

\* an attempt that failed at its first stage has released the guard
C17_Witness ==
  /\ last.returned /\ last.op = "locate" /\ Len(last.models) = 0
  /\ ~isRefreshing /\ pc = "idle"
  /\ lastError

\* C18: once cachedModels is non-empty it is non-empty in every later state,
\* and every change of cachedModels is made by a completing attempt that
\* replaces it as a whole with the full, non-empty record list its pipeline
\* returned from one probe.
C18_CacheReplacedWhole ==
  [][ /\ Len(cachedModels) > 0 => Len(cachedModels') > 0
      /\ cachedModels' # cachedModels =>
           /\ last'.returned /\ ProbeSucceeded(last')
           /\ Len(last'.models) > 0
           /\ cachedModels' = last'.models
           /\ cachedModels' = last'.configs ]_vars

\* a scheduled attempt completes and writes the two-record list of its probe
C18_Witness ==
  /\ last.returned /\ last.op = "body"
  /\ cachedModels = <<ModelC, ModelB>>
  /\ last.models = cachedModels
  /\ now >= REFRESH_INTERVAL_MS
  /\ nextFetchTime > REFRESH_INTERVAL_MS

\* C19: a refresh() call that passes the guard fires the change event exactly
\* once, in its completing step, with isRefreshing already false and
\* cachedModels and lastError already those of its outcome; its starting step
\* and the steps of its pipeline fire nothing, and a call the guard drops
\* fires nothing.
C19_OneFirePerAttempt ==
  [][ /\ last'.returned =>
           /\ last'.fires = 1
           /\ ~last'.guardAtFire /\ ~isRefreshing'
           /\ cachedModels' =
                (IF Len(last'.models) > 0 THEN last'.models ELSE cachedModels)
           /\ lastError' =
                (Len(last'.models) = 0 /\ (Len(cachedModels) = 0 \/ lastError))
      /\ (runs' > runs \/ last'.dropped) => last'.fires = 0
      /\ (isRefreshing /\ ~last'.returned /\ last'.op \notin Triggers)
           => last'.fires = 0 ]_vars

\* an attempt with nothing to report still fires once when it completes
C19_Witness ==
  /\ last.returned /\ last.fires = 1 /\ ~last.guardAtFire
  /\ Len(last.models) = 0
  /\ Len(cachedModels) > 0
  /\ ~isRefreshing

\* distances in ms from now to a deadline at most one interval ahead, on and
\* off whole seconds
DeadlineOffsets ==
  {-1, 0, 1, 999, 1000, 1001, REFRESH_INTERVAL_MS - 1, REFRESH_INTERVAL_MS}

\* C20: with a clock that never goes back, nextFetchTime - now is at most
\* REFRESH_INTERVAL_MS in every reachable state, so the countdown of the timer
\* row is a whole number of seconds between 0 and 300, and it is 0 in every
\* state where the deadline has elapsed; the countdown a getChildren call
\* returned is that number, and for a deadline any number of ms ahead it is
\* the number of whole seconds left.
C20_CountdownInRange ==
  /\ nextFetchTime - now <= REFRESH_INTERVAL_MS
  /\ SecondsLeft(nextFetchTime) \in 0 .. (REFRESH_INTERVAL_MS \div 1000)
  /\ now >= nextFetchTime => SecondsLeft(nextFetchTime) = 0
  /\ last.op = "view" => last.secondsLeft = SecondsLeft(nextFetchTime)
  /\ \A d \in DeadlineOffsets :
       LET s == SecondsLeft(now + d)
       IN /\ s \in 0 .. (REFRESH_INTERVAL_MS \div 1000)
          /\ d <= 0 => s = 0
          /\ d > 0 => (s * 1000 <= d /\ d < (s + 1) * 1000)

\* the view is drawn 30 s past a deadline that a run in flight keeps from
\* being renewed: the countdown is 0
C20_Witness ==
  /\ last.op = "view" /\ last.secondsLeft = 0
  /\ now > nextFetchTime
  /\ isRefreshing

====
